---- MODULE Spec2Model ----
(***************************************************************************)
(* Model of the poll-based key-value server of redis-from-scratch:         *)
(* KVStore, Connection (framing, dispatch, buffers, interest flags) and    *)
(* EventLoop (registry, readiness cycle), with the synchronous client's    *)
(* encoder as the source of the request frames that peers send.            *)
(*                                                                         *)
(* Bytes are integers 0..255.  A uint32_t is modelled by its four bytes in *)
(* host (little-endian) order, exactly what memcpy moves to and from the   *)
(* wire; a std::string is a sequence of bytes.                             *)
(***************************************************************************)
EXTENDS Integers, Sequences, FiniteSets, TLC

VARIABLES
  store,      \* KVStore::Impl::data: a function from the keys present to values
  fd2conn,    \* EventLoop::fd2conn_: function 0..size-1 -> Connection or NULL
  poll_args,  \* EventLoop::poll_args_: sequence of pollfd records
  pc,         \* position of the event loop inside runOnce
  idx,        \* loop variable i of handleConnectionSockets
  peers,      \* per open connection descriptor: the peer's side of the socket
  kv,         \* history: per key, the value of the last set dispatched, None
              \* when the key was never set, Gone when a del was dispatched since
  hr,         \* history: what the last iteration of handleConnectionSockets did
  cl          \* the synchronous client: where it is in send_command or
              \* read_full, and the locals of that function

vars == <<store, fd2conn, poll_args, pc, idx, peers, kv, hr, cl>>

(***************************************************************************)
(* Bounds of the model.                                                    *)
(***************************************************************************)
\* Spec: two connections, one request in flight.
MaxFd == 5           \* descriptors listen_fd+1 .. MaxFd are available to accept
MaxInFlight == 1     \* requests sent by peers and not yet answered in full
\* SpecProto: one connection, two frames in flight, protocol violations.
MaxFdProto == 4
MaxInFlightProto == 2
\* SpecPipe: one connection, three requests in flight (pipelining).
MaxFdPipe == 4
MaxInFlightPipe == 3
\* SpecIso: two connections, two frames in flight, protocol violations.
MaxFdIso == 5
MaxInFlightIso == 2
MaxFdFlush == 4
MaxInFlightFlush == 2

(***************************************************************************)
(* Program constants.                                                      *)
(***************************************************************************)
k_max_msg == 4096
ReadBufSize == 65536
listen_fd == 3

NULL == [null |-> TRUE]

(***************************************************************************)
(* uint32_t as four little-endian bytes.                                   *)
(***************************************************************************)
U32(n) == <<n % 256, (n \div 256) % 256, (n \div 65536) % 256, (n \div 16777216) % 256>>

\* The numeric value of a uint32_t below 2^24 (all the model ever adds to).
U32_val(b) == b[1] + 256 * b[2] + 65536 * b[3]

\* b > n as unsigned 32-bit integers, for 0 <= n < 2^24.
U32_gt(b, n) == b[4] > 0 \/ U32_val(b) > n

RES_OK == U32(0)
RES_NX == U32(1)
RES_ERR == <<255, 255, 255, 255>>

S_get == <<103, 101, 116>>
S_set == <<115, 101, 116>>
S_del == <<100, 101, 108>>

Min(a, b) == IF a < b THEN a ELSE b

RECURSIVE Concat(_)
Concat(ss) == IF ss = <<>> THEN <<>> ELSE Head(ss) \o Concat(Tail(ss))

IsPrefix(p, s) == Len(p) <= Len(s) /\ SubSeq(s, 1, Len(p)) = p

(***************************************************************************)
(* KVStore                                                                 *)
(***************************************************************************)
KVStore_get_found(data, key) ==
  [found |-> TRUE, out |-> IF key \in DOMAIN data THEN data[key] ELSE <<>>]

KVStore_get(data, key) ==
  IF key \in DOMAIN data
    THEN [found |-> TRUE, out |-> data[key]]
    ELSE [found |-> FALSE, out |-> <<>>]

KVStore_set_keepOld(data, key, value) ==
  IF key \in DOMAIN data THEN data
  ELSE [k \in DOMAIN data \cup {key} |-> IF k = key THEN value ELSE data[k]]

KVStore_set(data, key, value) ==
  [k \in DOMAIN data \cup {key} |-> IF k = key THEN value ELSE data[k]]

KVStore_del_clear(data, key) == [existed |-> key \in DOMAIN data, data |-> <<>>]

KVStore_del(data, key) ==
  [existed |-> key \in DOMAIN data,
   data |-> [k \in DOMAIN data \ {key} |-> data[k]]]

(***************************************************************************)
(* Buffer helpers of asyncio.cpp                                           *)
(***************************************************************************)
bufConsume(buf, n) ==
  IF n = 0 THEN buf
  ELSE IF n >= Len(buf) THEN <<>>
  ELSE SubSeq(buf, n + 1, Len(buf))

bufAppend_overwrite(buf, data) == data

bufAppend(buf, data) == IF Len(data) = 0 THEN buf ELSE buf \o data

\* cur is the number of bytes already consumed of the body `data`.
readU32(data, cur) ==
  IF cur + 4 > Len(data)
    THEN [ok |-> FALSE, cur |-> cur, out |-> U32(0)]
    ELSE [ok |-> TRUE, cur |-> cur + 4, out |-> SubSeq(data, cur + 1, cur + 4)]

\* n is a uint32_t (four bytes): cur + n > end.
readStr(data, cur, n) ==
  IF U32_gt(n, Len(data) - cur)
    THEN [ok |-> FALSE, cur |-> cur, out |-> <<>>]
    ELSE [ok |-> TRUE, cur |-> cur + U32_val(n),
          out |-> SubSeq(data, cur + 1, cur + U32_val(n))]

RECURSIVE parseStrings(_, _, _, _, _)
parseStrings(data, cur, i, nstr, out) ==
  IF ~(i < nstr)
    THEN [ok |-> (cur = Len(data)), out |-> out]
    ELSE LET l == readU32(data, cur) IN
         IF ~l.ok THEN [ok |-> FALSE, out |-> out]
         ELSE LET s == readStr(data, l.cur, l.out) IN
              IF ~s.ok THEN [ok |-> FALSE, out |-> out]
              ELSE parseStrings(data, s.cur, i + 1, nstr, Append(out, s.out))

parseRequest(data) ==
  LET n == readU32(data, 0) IN
  IF ~n.ok THEN [ok |-> FALSE, out |-> <<>>]
  ELSE IF U32_gt(n.out, k_max_msg) THEN [ok |-> FALSE, out |-> <<>>]
  ELSE parseStrings(data, n.cur, 0, U32_val(n.out), <<>>)

(***************************************************************************)
(* Connection.  A Connection is the record of its fields.  The result of a *)
(* ::read or ::write system call is an input of the handler:               *)
(*   r = [kind |-> "eagain" | "err" | "eof" | "data", data |-> bytes]      *)
(*   w = [kind |-> "eagain" | "err" | "ok", space |-> bytes accepted]      *)
(***************************************************************************)
Connection(fd) ==
  [fd |-> fd, want_read |-> TRUE, want_write |-> FALSE, want_close |-> FALSE,
   incoming |-> <<>>, outgoing |-> <<>>]

appendOutgoing(c, data) == [c EXCEPT !.outgoing = bufAppend(c.outgoing, data)]

appendResponse(c, status, data) ==
  LET resp_len == U32(4 + Len(data))
      c1 == appendOutgoing(c, resp_len)
      c2 == appendOutgoing(c1, status)
  IN IF data # <<>> THEN appendOutgoing(c2, data) ELSE c2

execute_badAsNx(st, cmd) ==
  IF Len(cmd) = 2 /\ cmd[1] = S_get THEN
    LET g == KVStore_get(st, cmd[2]) IN
    IF g.found THEN [status |-> RES_OK, data |-> g.out, store |-> st]
               ELSE [status |-> RES_NX, data |-> <<>>, store |-> st]
  ELSE IF Len(cmd) = 3 /\ cmd[1] = S_set THEN
    [status |-> RES_OK, data |-> <<>>, store |-> KVStore_set(st, cmd[2], cmd[3])]
  ELSE IF Len(cmd) = 2 /\ cmd[1] = S_del THEN
    [status |-> RES_OK, data |-> <<>>, store |-> KVStore_del(st, cmd[2]).data]
  ELSE [status |-> RES_NX, data |-> <<>>, store |-> st]

\* The command dispatch of tryOneRequest (lines 172-190).
execute(st, cmd) ==
  IF Len(cmd) = 2 /\ cmd[1] = S_get THEN
    LET g == KVStore_get(st, cmd[2]) IN
    IF g.found THEN [status |-> RES_OK, data |-> g.out, store |-> st]
               ELSE [status |-> RES_NX, data |-> <<>>, store |-> st]
  ELSE IF Len(cmd) = 3 /\ cmd[1] = S_set THEN
    [status |-> RES_OK, data |-> <<>>, store |-> KVStore_set(st, cmd[2], cmd[3])]
  ELSE IF Len(cmd) = 2 /\ cmd[1] = S_del THEN
    [status |-> RES_OK, data |-> <<>>, store |-> KVStore_del(st, cmd[2]).data]
  ELSE [status |-> RES_ERR, data |-> <<>>, store |-> st]

\* tryOneRequest returns the function's result (more), the Connection and
\* the Store after the call, and the request it dispatched, if any (events).
\* It is written as a chain of operators, one per stage of the function, each
\* taking the values the stages before it computed.
noMore(c, st) == [more |-> FALSE, conn |-> c, store |-> st, events |-> <<>>]

tryRespond_yield(c, st, n, cmd, x) ==
  [more |-> FALSE,
   conn |-> [appendResponse(c, x.status, x.data) EXCEPT
               !.incoming = bufConsume(@, 4 + n)],
   store |-> x.store,
   events |-> << [frame |-> SubSeq(c.incoming, 1, 4 + n), cmd |-> cmd,
                  status |-> x.status, data |-> x.data,
                  before |-> st, after |-> x.store] >>]

\* Lines 192-196: x is the outcome of the command, n the frame's length field.
tryRespond(c, st, n, cmd, x) ==
  [more |-> TRUE,
   conn |-> [appendResponse(c, x.status, x.data) EXCEPT
               !.incoming = bufConsume(@, 4 + n)],
   store |-> x.store,
   events |-> << [frame |-> SubSeq(c.incoming, 1, 4 + n), cmd |-> cmd,
                  status |-> x.status, data |-> x.data,
                  before |-> st, after |-> x.store] >>]

tryParsed_lenient(c, st, n, p) ==
  IF ~p.ok
    THEN [more |-> TRUE, conn |-> [c EXCEPT !.incoming = bufConsume(c.incoming, 4 + n)],
          store |-> st, events |-> <<>>]
    ELSE tryRespond(c, st, n, p.out, execute(st, p.out))

\* Lines 165-190: p is the result of parseRequest.
tryParsed(c, st, n, p) ==
  IF ~p.ok
    THEN noMore([c EXCEPT !.want_close = TRUE,
                          !.incoming = bufConsume(c.incoming, 4 + n)], st)
    ELSE tryRespond(c, st, n, p.out, execute(st, p.out))

tryFrame_noLimit(c, st, len) ==
  IF Len(c.incoming) < 4 + U32_val(len) THEN noMore(c, st)
  ELSE tryParsed(c, st, U32_val(len),
                 parseRequest(SubSeq(c.incoming, 5, 4 + U32_val(len))))

tryFrame_dropOversize(c, st, len) ==
  IF U32_gt(len, k_max_msg)
    THEN noMore([c EXCEPT !.want_close = TRUE,
                          !.incoming = bufConsume(c.incoming, U32_val(len))], st)
  ELSE IF Len(c.incoming) < 4 + U32_val(len) THEN noMore(c, st)
  ELSE tryParsed(c, st, U32_val(len),
                 parseRequest(SubSeq(c.incoming, 5, 4 + U32_val(len))))

tryFrame_doubleLimit(c, st, len) ==
  IF U32_gt(len, 2 * k_max_msg) THEN noMore([c EXCEPT !.want_close = TRUE], st)
  ELSE IF Len(c.incoming) < 4 + U32_val(len) THEN noMore(c, st)
  ELSE tryParsed(c, st, U32_val(len),
                 parseRequest(SubSeq(c.incoming, 5, 4 + U32_val(len))))

\* Lines 155-165: len is the length prefix, a uint32_t.
tryFrame(c, st, len) ==
  IF U32_gt(len, k_max_msg) THEN noMore([c EXCEPT !.want_close = TRUE], st)
  ELSE IF Len(c.incoming) < 4 + U32_val(len) THEN noMore(c, st)
  ELSE tryParsed(c, st, U32_val(len),
                 parseRequest(SubSeq(c.incoming, 5, 4 + U32_val(len))))

tryOneRequest(c, st) ==
  IF Len(c.incoming) < 4 THEN noMore(c, st)
  ELSE tryFrame(c, st, SubSeq(c.incoming, 1, 4))

dispatchLoop_once(c, st, evs) ==
  [conn |-> tryOneRequest(c, st).conn, store |-> tryOneRequest(c, st).store,
   events |-> evs \o tryOneRequest(c, st).events]

RECURSIVE dispatchLoop(_, _, _)
\* One evaluation of the loop condition: t is what tryOneRequest returned.
loopTest(t, evs) ==
  IF t.more THEN dispatchLoop(t.conn, t.store, evs \o t.events)
  ELSE [conn |-> t.conn, store |-> t.store, events |-> evs]

\* while (tryOneRequest(store)) {}
dispatchLoop(c, st, evs) == loopTest(tryOneRequest(c, st), evs)

writableDrained_keepWrite(c) ==
  IF c.outgoing = <<>> THEN [c EXCEPT !.want_read = TRUE] ELSE c

\* The end of handleWritable (lines 141-146): c after bufConsume.
writableDrained(c) ==
  IF c.outgoing = <<>> THEN [c EXCEPT !.want_write = FALSE, !.want_read = TRUE] ELSE c

writableWrote_keep(c, rv) ==
  [conn |-> writableDrained(c), written |-> SubSeq(c.outgoing, 1, rv), called |-> TRUE]

writableWrote_fullOnly(c, rv) ==
  [conn |-> writableDrained([c EXCEPT !.outgoing =
                               IF rv = Len(c.outgoing) THEN <<>> ELSE c.outgoing]),
   written |-> SubSeq(c.outgoing, 1, rv), called |-> TRUE]

\* Lines 133-146: rv is what ::write returned when it succeeded.
writableWrote(c, rv) ==
  [conn |-> writableDrained([c EXCEPT !.outgoing = bufConsume(c.outgoing, rv)]),
   written |-> SubSeq(c.outgoing, 1, rv), called |-> TRUE]

handleWritable_wholeBuffer(c, w) ==
  IF c.outgoing = <<>>
    THEN [conn |-> [c EXCEPT !.want_write = FALSE, !.want_read = TRUE],
          written |-> <<>>, called |-> FALSE]
  ELSE IF w.kind = "eagain" THEN [conn |-> c, written |-> <<>>, called |-> TRUE]
  ELSE IF w.kind = "err"
    THEN [conn |-> [c EXCEPT !.want_close = TRUE], written |-> <<>>, called |-> TRUE]
  ELSE [conn |-> [c EXCEPT !.outgoing = <<>>, !.want_write = FALSE, !.want_read = TRUE],
        written |-> SubSeq(c.outgoing, 1, Min(w.space, Len(c.outgoing))),
        called |-> TRUE]

\* Returns the Connection after the call, the bytes ::write accepted and
\* whether ::write was called.
handleWritable(c, w) ==
  IF c.outgoing = <<>>
    THEN [conn |-> [c EXCEPT !.want_write = FALSE, !.want_read = TRUE],
          written |-> <<>>, called |-> FALSE]
  ELSE IF w.kind = "eagain" THEN [conn |-> c, written |-> <<>>, called |-> TRUE]
  ELSE IF w.kind = "err"
    THEN [conn |-> [c EXCEPT !.want_close = TRUE], written |-> <<>>, called |-> TRUE]
  ELSE writableWrote(c, Min(w.space, Len(c.outgoing)))

\* handleReadable returns the Connection and the Store after the call, the
\* requests it dispatched, the outgoing buffer it had built before its
\* opportunistic flush (queued), the bytes that flush wrote and whether
\* ::write was called.
readableQuiet(c, st) ==
  [conn |-> c, store |-> st, events |-> <<>>,
   queued |-> c.outgoing, written |-> <<>>, wcalled |-> FALSE]

\* Line 122: d is the result of the loop, h of the call of handleWritable.
readableFlushed(d, h) ==
  [conn |-> h.conn, store |-> d.store, events |-> d.events,
   queued |-> d.conn.outgoing, written |-> h.written, wcalled |-> h.called]

readableAfterLoop_noTurn(d, w) ==
  IF d.conn.outgoing # <<>>
    THEN readableFlushed(d, handleWritable(d.conn, w))
    ELSE [conn |-> d.conn, store |-> d.store, events |-> d.events,
          queued |-> <<>>, written |-> <<>>, wcalled |-> FALSE]

\* Lines 118-123: d is the result of the loop.
readableAfterLoop(d, w) ==
  IF d.conn.outgoing # <<>>
    THEN readableFlushed(d, handleWritable(
           [d.conn EXCEPT !.want_read = FALSE, !.want_write = TRUE], w))
    ELSE [conn |-> d.conn, store |-> d.store, events |-> d.events,
          queued |-> <<>>, written |-> <<>>, wcalled |-> FALSE]

handleReadable_eofPartial(c, st, r, w) ==
  IF r.kind = "eagain" THEN readableQuiet(c, st)
  ELSE IF r.kind = "err" THEN readableQuiet([c EXCEPT !.want_close = TRUE], st)
  ELSE IF r.kind = "eof"
    THEN readableQuiet([c EXCEPT !.want_close = (c.incoming = <<>>)], st)
  ELSE readableAfterLoop(
         dispatchLoop([c EXCEPT !.incoming = bufAppend(c.incoming, r.data)], st, <<>>), w)

handleReadable(c, st, r, w) ==
  IF r.kind = "eagain" THEN readableQuiet(c, st)
  ELSE IF r.kind = "err" THEN readableQuiet([c EXCEPT !.want_close = TRUE], st)
  ELSE IF r.kind = "eof" THEN readableQuiet([c EXCEPT !.want_close = TRUE], st)
  ELSE readableAfterLoop(
         dispatchLoop([c EXCEPT !.incoming = bufAppend(c.incoming, r.data)], st, <<>>), w)

(***************************************************************************)
(* The synchronous client's encoder (client.cpp): the frames peers send.   *)
(***************************************************************************)
\* Most significant byte first.
append_u32_be(buf, v) ==
  buf \o <<(v \div 16777216) % 256, (v \div 65536) % 256, (v \div 256) % 256, v % 256>>

append_u32(buf, v) == buf \o U32(v)

RECURSIVE payloadEstimate(_, _, _)
\* The size check of build_payload: FALSE stands for the early `return false`.
payloadEstimate(cmd, i, estimated) ==
  IF i > Len(cmd) THEN TRUE
  ELSE IF Len(cmd[i]) > k_max_msg THEN FALSE
  ELSE IF estimated + 4 + Len(cmd[i]) > k_max_msg THEN FALSE
  ELSE payloadEstimate(cmd, i + 1, estimated + 4 + Len(cmd[i]))

RECURSIVE payloadStrings(_, _, _)
payloadStrings(cmd, i, payload) ==
  IF i > Len(cmd) THEN payload
  ELSE payloadStrings(cmd, i + 1, append_u32(payload, Len(cmd[i])) \o cmd[i])

build_payload(cmd) ==
  IF ~payloadEstimate(cmd, 1, 4) THEN [ok |-> FALSE, payload |-> <<>>]
  ELSE [ok |-> TRUE, payload |-> payloadStrings(cmd, 1, append_u32(<<>>, Len(cmd)))]

\* wbuf of send_command: [len][payload].
requestFrame(cmd) ==
  LET b == build_payload(cmd) IN append_u32(<<>>, Len(b.payload)) \o b.payload

\* The response side of send_command: the status and payload the client
\* extracts from the first response frame of buf; ok is FALSE where
\* send_command returns false or the frame is not complete.
decodeResponse(buf) ==
  IF Len(buf) < 4 THEN [ok |-> FALSE, status |-> U32(0), data |-> <<>>, size |-> 0]
  ELSE
    LET rlen == SubSeq(buf, 1, 4) IN
    IF U32_gt(rlen, k_max_msg) \/ ~U32_gt(rlen, 3) \/ Len(buf) < 4 + U32_val(rlen)
      THEN [ok |-> FALSE, status |-> U32(0), data |-> <<>>, size |-> 0]
      ELSE [ok |-> TRUE, status |-> SubSeq(buf, 5, 8),
            data |-> SubSeq(buf, 9, 4 + U32_val(rlen)), size |-> 4 + U32_val(rlen)]

(***************************************************************************)
(* What peers send.  A message is the bytes of one write of a peer:        *)
(*   "cmd"       a well-formed request frame, as the client encodes it     *)
(*   "malformed" a complete frame whose body does not parse                *)
(*   "oversize"  a length prefix above k_max_msg                           *)
(*   "open"      a length prefix of exactly k_max_msg and the first bytes  *)
(*               of its body: the frame never completes within a run       *)
(***************************************************************************)
K_a == <<97>>
K_b == <<98>>
V_x == <<120>>
V_y == <<121>>

Cmd(id, cmd) == [id |-> id, kind |-> "cmd", cmd |-> cmd, bytes |-> requestFrame(cmd)]
Raw(id, kind, bytes) == [id |-> id, kind |-> kind, cmd |-> <<>>, bytes |-> bytes]

GetPayload == build_payload(<<S_get, K_a>>).payload

MenuKV ==
  { Cmd("set_a_x", <<S_set, K_a, V_x>>), Cmd("set_a_y", <<S_set, K_a, V_y>>),
    Cmd("set_b_y", <<S_set, K_b, V_y>>), Cmd("get_a", <<S_get, K_a>>),
    Cmd("del_a", <<S_del, K_a>>),
    Cmd("bad_arity", <<S_set, K_a>>) }

MenuProto ==
  { Cmd("set_a_x", <<S_set, K_a, V_x>>), Cmd("get_a", <<S_get, K_a>>),
    Cmd("bad_arity", <<S_set, K_a>>),
    Cmd("bad_verb", <<<<103, 101>>, K_a>>), Cmd("bad_empty", <<>>),
    Raw("oversize", "oversize", U32(k_max_msg + 1)),
    Raw("open", "open", U32(k_max_msg) \o <<2, 0>>),
    Raw("m_nobody", "malformed", U32(0)),
    Raw("m_strlen", "malformed", U32(6) \o U32(1) \o <<1, 0>>),
    Raw("m_strbytes", "malformed", U32(9) \o U32(1) \o U32(5) \o K_a),
    Raw("m_trailing", "malformed", U32(Len(GetPayload) + 1) \o GetPayload \o <<0>>),
    Raw("m_count", "malformed", U32(4) \o U32(k_max_msg + 1)) }

MenuPipe ==
  { Cmd("set_a_x", <<S_set, K_a, V_x>>), Cmd("get_a", <<S_get, K_a>>),
    Cmd("bad_arity", <<S_set, K_a>>) }

MenuIso ==
  { Cmd("get_a", <<S_get, K_a>>),
    Raw("oversize", "oversize", U32(k_max_msg + 1)),
    Raw("m_nobody", "malformed", U32(0)) }

Item(id) == CHOOSE m \in MenuKV \cup MenuProto \cup MenuPipe \cup MenuIso : m.id = id

RECURSIVE TxBytes(_)
TxBytes(tx) == IF tx = <<>> THEN <<>> ELSE Item(Head(tx)).bytes \o TxBytes(Tail(tx))

\* Offsets inside a message at which a short read may end.
CutOffsets == {3, 5}

\* Sizes a short write may have.
ShortWrites == {0, 3}

(***************************************************************************)
(* The history variable kv: what the requests dispatched so far say each   *)
(* key holds (section 4.3 of the specification), and the response the      *)
(* specification gives to a command.                                       *)
(***************************************************************************)
None == <<-1>>   \* the key was never set
Gone == <<-2>>   \* the last set or del dispatched for the key was a del
Keys == {K_a, K_b}
Absent(m, k) == m[k] \in {None, Gone}

IsGet(cmd) == Len(cmd) = 2 /\ cmd[1] = S_get
IsSet(cmd) == Len(cmd) = 3 /\ cmd[1] = S_set
IsDel(cmd) == Len(cmd) = 2 /\ cmd[1] = S_del

\* The command cmd, dispatched when the history is m.
RefExec(m, cmd) ==
  IF IsGet(cmd) THEN
    IF ~Absent(m, cmd[2]) THEN [status |-> RES_OK, data |-> m[cmd[2]], kv |-> m]
    ELSE [status |-> RES_NX, data |-> <<>>, kv |-> m]
  ELSE IF IsSet(cmd) THEN
    [status |-> RES_OK, data |-> <<>>, kv |-> [m EXCEPT ![cmd[2]] = cmd[3]]]
  ELSE IF IsDel(cmd) THEN
    [status |-> RES_OK, data |-> <<>>, kv |-> [m EXCEPT ![cmd[2]] = Gone]]
  ELSE [status |-> RES_ERR, data |-> <<>>, kv |-> m]

RECURSIVE RefRun(_, _)
\* kv after the commands cmds, dispatched in order.
RefRun(m, cmds) ==
  IF cmds = <<>> THEN m ELSE RefRun(RefExec(m, Head(cmds)).kv, Tail(cmds))

\* The response frame of section 6: u32 (4 + payload length), u32 status, payload.
RefFrame(status, data) == U32(4 + Len(data)) \o status \o data

(***************************************************************************)
(* EventLoop                                                               *)
(***************************************************************************)
ErrBits == {"POLLERR", "POLLHUP", "POLLNVAL"}

NoHr == [fd |-> -1]

\* No client is modelled: peers write bytes of their own.
NoClient == [at |-> "none"]

Live == {fd \in DOMAIN fd2conn : fd2conn[fd] # NULL}

\* Requests peers have sent that are not yet answered in full.
RECURSIVE InFlight(_)
InFlight(fds) ==
  IF fds = {} THEN 0
  ELSE LET fd == CHOOSE x \in fds : TRUE
       IN Len(peers[fd].pend) + Len(peers[fd].owed) + InFlight(fds \ {fd})

Init ==
  /\ store = <<>>
  /\ fd2conn = <<>>
  /\ poll_args = <<>>
  /\ pc = "prepare"
  /\ idx = 1
  /\ peers = <<>>
  /\ kv = [k \in Keys |-> None]
  /\ hr = NoHr
  /\ cl = NoClient

RECURSIVE connEntries(_, _)
\* The loop of preparePollArgs over fd2conn_, from index fd on.
connEntries(f, fd) ==
  IF fd \notin DOMAIN f THEN <<>>
  ELSE IF f[fd] = NULL THEN connEntries(f, fd + 1)
  ELSE << [fd |-> f[fd].fd,
           events |-> {"POLLERR"} \cup (IF f[fd].want_read THEN {"POLLIN"} ELSE {})
                                   \cup (IF f[fd].want_write THEN {"POLLOUT"} ELSE {}),
           revents |-> {}] >> \o connEntries(f, fd + 1)

preparePollArgs ==
  /\ pc = "prepare"
  /\ poll_args' = << [fd |-> listen_fd, events |-> {"POLLIN"}, revents |-> {}] >>
                    \o connEntries(fd2conn, 0)
  /\ pc' = "wait"
  /\ hr' = NoHr
  /\ UNCHANGED <<store, fd2conn, idx, peers, kv, cl>>

\* A peer writes one message to its socket while the server is blocked in
\* poll(); the server sees a peer only through its own system calls, so a
\* write at any other moment is observed in the same way.
PeerSend(menu, inflight) ==
  /\ pc = "wait"
  /\ InFlight(DOMAIN peers) < inflight
  /\ \E fd \in DOMAIN peers, m \in menu :
       /\ \A k \in 1..Len(peers[fd].pend) : Item(peers[fd].pend[k]).kind # "open"
       /\ peers' = [peers EXCEPT ![fd].pend = Append(@, m.id), ![fd].rcvq = @ \o m.bytes]
  /\ UNCHANGED <<store, fd2conn, poll_args, pc, idx, kv, hr, cl>>

\* What poll() may report for one entry: bits that were asked for, and the
\* error conditions, which are always reported.
Revents(e) ==
  {{}} \cup {{b} : b \in e.events \ {"POLLERR"}} \cup {{"POLLERR"}}
       \cup {{b, "POLLHUP"} : b \in e.events \ {"POLLERR"}}

\* poll() returns with the revents it filled in; a return with none set is
\* the EINTR return, which leaves revents as preparePollArgs cleared them.
waitForEvents ==
  /\ pc = "wait"
  /\ \E rv \in [1..Len(poll_args) -> SUBSET {"POLLIN", "POLLOUT", "POLLERR", "POLLHUP"}] :
       /\ rv[1] \in {{}, {"POLLIN"}}
       /\ \A k \in 2..Len(poll_args) : rv[k] \in Revents(poll_args[k])
       /\ poll_args' = [k \in 1..Len(poll_args) |-> [poll_args[k] EXCEPT !.revents = rv[k]]]
  /\ pc' = "listen"
  /\ UNCHANGED <<store, fd2conn, idx, peers, kv, hr, cl>>

\* poll() fails with an error other than EINTR: runOnce throws and main exits.
waitForEventsThrows ==
  /\ pc = "wait"
  /\ pc' = "dead"
  /\ UNCHANGED <<store, fd2conn, poll_args, idx, peers, kv, hr, cl>>

\* Where runOnce goes after the entry before index i has been handled.
loopPc(i) == IF i > Len(poll_args) THEN "prepare" ELSE "conns"

\* ::accept returns the lowest descriptor number that is not open.
FreeFds(maxfd) == {fd \in (listen_fd + 1)..maxfd : fd \notin DOMAIN peers}

registerConn_pushBack(f, conn) ==
  [k \in 0..Cardinality(DOMAIN f) |-> IF k \in DOMAIN f THEN f[k] ELSE conn]

registerConn(f, conn) ==
  LET cfd == conn.fd
      g == IF cfd >= Cardinality(DOMAIN f)
             THEN [k \in 0..cfd |-> IF k \in DOMAIN f THEN f[k] ELSE NULL]
             ELSE f
  IN [g EXCEPT ![cfd] = conn]

NewPeer == [pend |-> <<>>, rcvq |-> <<>>, owed |-> <<>>]

handleListeningSocket(maxfd) ==
  /\ pc = "listen"
  /\ \/ /\ "POLLIN" \notin poll_args[1].revents
        /\ UNCHANGED <<fd2conn, peers>>
     \/ /\ "POLLIN" \in poll_args[1].revents
        /\ \/ \* acceptOne returns nullptr (EAGAIN)
              UNCHANGED <<fd2conn, peers>>
           \/ /\ FreeFds(maxfd) # {}
              /\ LET cfd == CHOOSE fd \in FreeFds(maxfd) : \A g \in FreeFds(maxfd) : fd <= g IN
                 /\ fd2conn' = registerConn(fd2conn, Connection(cfd))
                 /\ peers' = [fd \in DOMAIN peers \cup {cfd} |->
                                IF fd = cfd THEN NewPeer ELSE peers[fd]]
  /\ pc' = loopPc(2)
  /\ idx' = 2
  /\ UNCHANGED <<store, poll_args, kv, hr, cl>>

\* ::accept or ::fcntl fails: acceptOne throws and main exits.
handleListeningSocketThrows ==
  /\ pc = "listen"
  /\ "POLLIN" \in poll_args[1].revents
  /\ pc' = "dead"
  /\ UNCHANGED <<store, fd2conn, poll_args, idx, peers, kv, hr, cl>>

RECURSIVE MsgOffset(_, _)
\* Where byte position e of the stream of messages tx lies inside its message
\* (0: on a message boundary).
MsgOffset(tx, e) ==
  IF tx = <<>> THEN 0
  ELSE LET L == Len(Item(Head(tx)).bytes) IN
       IF e < L THEN e ELSE MsgOffset(Tail(tx), e - L)

\* The results ::read may give on descriptor fd.  A read that returns fewer
\* bytes than the peer has written is a short read.
ReadOutcomes(fd) ==
  LET q    == peers[fd].rcvq
      done == Len(TxBytes(peers[fd].pend)) - Len(q)
      most == Min(Len(q), ReadBufSize)
  IN {[kind |-> k, n |-> 0] : k \in {"eagain", "err", "eof"}}
       \cup {[kind |-> "data", n |-> n] :
               n \in {x \in 1..most : x = most \/ MsgOffset(peers[fd].pend, done + x)
                                                      \in CutOffsets \cup {0}}}

\* The results ::write may give for a buffer of L > 0 bytes.
WriteOutcomes(L) ==
  {[kind |-> k, space |-> 0] : k \in {"eagain", "err"}}
    \cup {[kind |-> "ok", space |-> n] : n \in {x \in ShortWrites \cup {L} : x <= L}}

NoWrite == [kind |-> "eagain", space |-> 0]
NoRead == [kind |-> "eagain", n |-> 0]

RECURSIVE RefResponses(_, _)
\* The response frames the specification gives to the commands cmds,
\* dispatched in order from the history m.
RefResponses(m, cmds) ==
  IF cmds = <<>> THEN <<>>
  ELSE LET x == RefExec(m, Head(cmds))
       IN <<RefFrame(x.status, x.data)>> \o RefResponses(x.kv, Tail(cmds))

RECURSIVE Cmds(_)
Cmds(tx) == IF tx = <<>> THEN <<>> ELSE <<Item(Head(tx)).cmd>> \o Cmds(Tail(tx))

RECURSIVE TrimFrames(_, _)
\* The frames fs without their first n bytes.
TrimFrames(fs, n) ==
  IF fs = <<>> \/ n = 0 THEN fs
  ELSE IF n >= Len(Head(fs)) THEN TrimFrames(Tail(fs), n - Len(Head(fs)))
  ELSE <<SubSeq(Head(fs), n + 1, Len(Head(fs)))>> \o Tail(fs)

shouldTeardown_errOnly(ready, c) == ready \cap ErrBits # {}

\* The condition of the teardown (line 325).
shouldTeardown(ready, c) == (ready \cap ErrBits # {}) \/ c.want_close

\* One iteration of the loop of handleConnectionSockets, on poll_args[idx],
\* with r the result of the ::read of handleReadable, w1 of the ::write of
\* its opportunistic flush and w2 of the ::write of handleWritable.

iterationEnd_closeAll(fd, ready, r, data, ws, a, b, torn, done, wr) ==
  /\ store' = a.store
  /\ fd2conn' = IF torn THEN [x \in DOMAIN fd2conn |-> NULL]
                ELSE [fd2conn EXCEPT ![fd] = b.conn]
  /\ peers' = IF torn THEN [x \in DOMAIN peers \ {fd} |-> peers[x]]
              ELSE [peers EXCEPT ![fd] =
                      [pend |-> SubSeq(@.pend, Len(done) + 1, Len(@.pend)),
                       rcvq |-> bufConsume(@.rcvq, Len(data)),
                       owed |-> TrimFrames(@.owed \o RefResponses(kv, Cmds(done)),
                                           Len(wr))]]
  /\ kv' = RefRun(kv, Cmds(done))
  /\ hr' = [fd |-> fd, ready |-> ready, before |-> fd2conn[fd], peer |-> peers[fd],
            kv |-> kv, store |-> store,
            read |-> IF "POLLIN" \in ready THEN r.kind ELSE "none",
            data |-> data, events |-> a.events, queued |-> a.queued,
            wcalls |-> ws, written |-> wr, mid |-> a.conn, after |-> b.conn,
            torn |-> torn]

\* Lines 325-329 and the history: a is what handleReadable did (or nothing),
\* b what handleWritable did (or nothing), torn the condition of the teardown,
\* done the requests of the peer that were dispatched, wr the bytes written.
iterationEnd(fd, ready, r, data, ws, a, b, torn, done, wr) ==
  /\ store' = a.store
  /\ fd2conn' = [fd2conn EXCEPT ![fd] = IF torn THEN NULL ELSE b.conn]
  /\ peers' = IF torn THEN [x \in DOMAIN peers \ {fd} |-> peers[x]]
              ELSE [peers EXCEPT ![fd] =
                      [pend |-> SubSeq(@.pend, Len(done) + 1, Len(@.pend)),
                       rcvq |-> bufConsume(@.rcvq, Len(data)),
                       owed |-> TrimFrames(@.owed \o RefResponses(kv, Cmds(done)),
                                           Len(wr))]]
  /\ kv' = RefRun(kv, Cmds(done))
  /\ hr' = [fd |-> fd, ready |-> ready, before |-> fd2conn[fd], peer |-> peers[fd],
            kv |-> kv, store |-> store,
            read |-> IF "POLLIN" \in ready THEN r.kind ELSE "none",
            data |-> data, events |-> a.events, queued |-> a.queued,
            wcalls |-> ws, written |-> wr, mid |-> a.conn, after |-> b.conn,
            torn |-> torn]

\* Lines 321-325: a is what handleReadable did, b what handleWritable did.
iterationWritten(fd, ready, r, data, w1, w2, a, b) ==
  iterationEnd(fd, ready, r, data,
               (IF a.wcalled THEN <<w1>> ELSE <<>>) \o (IF b.called THEN <<w2>> ELSE <<>>),
               a, b,
               shouldTeardown(ready, b.conn),
               SubSeq(peers[fd].pend, 1, Min(Len(a.events), Len(peers[fd].pend))),
               a.written \o b.written)

\* Lines 318-323: a is what handleReadable did.
iterationRead(fd, ready, r, data, w1, w2, a) ==
  iterationWritten(fd, ready, r, data, w1, w2, a,
                   IF "POLLOUT" \in ready
                     THEN handleWritable(a.conn, w2)
                     ELSE [conn |-> a.conn, written |-> <<>>, called |-> FALSE])

\* Lines 312-320: data is what ::read stored in buf.
iterationOn(fd, ready, r, data, w1, w2) ==
  iterationRead(fd, ready, r, data, w1, w2,
                IF "POLLIN" \in ready
                  THEN handleReadable(fd2conn[fd], store,
                                      [kind |-> r.kind, data |-> data], w1)
                  ELSE [conn |-> fd2conn[fd], store |-> store, events |-> <<>>,
                        queued |-> <<>>, written |-> <<>>, wcalled |-> FALSE])

connIteration(fd, ready, r, w1, w2) ==
  IF fd < 0 \/ fd >= Cardinality(DOMAIN fd2conn) \/ fd2conn[fd] = NULL
    THEN /\ hr' = NoHr
         /\ UNCHANGED <<store, fd2conn, peers, kv>>
    ELSE iterationOn(fd, ready, r,
                     IF "POLLIN" \in ready THEN SubSeq(peers[fd].rcvq, 1, r.n) ELSE <<>>,
                     w1, w2)

\* The outgoing buffer the ::write of handleReadable's flush is given, after
\* a ::read with result r.
QueuedAfterRead(fd, r) ==
  handleReadable(fd2conn[fd], store,
                 [kind |-> r.kind, data |-> SubSeq(peers[fd].rcvq, 1, r.n)],
                 NoWrite).queued

\* The outgoing buffer the ::write of handleWritable is given, after
\* handleReadable ran (if it did) with results r and w1.
QueuedAfterFlush(fd, ready, r, w1) ==
  IF "POLLIN" \in ready
    THEN handleReadable(fd2conn[fd], store,
                        [kind |-> r.kind, data |-> SubSeq(peers[fd].rcvq, 1, r.n)],
                        w1).conn.outgoing
    ELSE fd2conn[fd].outgoing

\* The choice of the system-call results of one iteration.
iterationChoice(fd, ready, live) ==
  \E r \in (IF live /\ "POLLIN" \in ready THEN ReadOutcomes(fd) ELSE {NoRead}) :
    \E w1 \in (IF live /\ "POLLIN" \in ready /\ r.kind = "data"
                     /\ QueuedAfterRead(fd, r) # <<>>
                 THEN WriteOutcomes(Len(QueuedAfterRead(fd, r))) ELSE {NoWrite}) :
      \E w2 \in (IF live /\ "POLLOUT" \in ready /\ QueuedAfterFlush(fd, ready, r, w1) # <<>>
                   THEN WriteOutcomes(Len(QueuedAfterFlush(fd, ready, r, w1)))
                   ELSE {NoWrite}) :
        connIteration(fd, ready, r, w1, w2)

handleConnectionSockets ==
  /\ pc = "conns"
  /\ idx <= Len(poll_args)
  /\ iterationChoice(poll_args[idx].fd, poll_args[idx].revents,
                     poll_args[idx].fd \in DOMAIN fd2conn
                       /\ fd2conn[poll_args[idx].fd] # NULL)
  /\ idx' = idx + 1
  /\ pc' = loopPc(idx + 1)
  /\ UNCHANGED <<poll_args, cl>>

NextM(menu, maxfd, inflight) ==
  \/ preparePollArgs
  \/ PeerSend(menu, inflight)
  \/ waitForEvents
  \/ waitForEventsThrows
  \/ handleListeningSocket(maxfd)
  \/ handleListeningSocketThrows
  \/ handleConnectionSockets

Next == NextM(MenuKV, MaxFd, MaxInFlight)
NextProto == NextM(MenuProto, MaxFdProto, MaxInFlightProto)
NextPipe == NextM(MenuPipe, MaxFdPipe, MaxInFlightPipe)
NextIso == NextM(MenuIso, MaxFdIso, MaxInFlightIso)

Spec == Init /\ [][Next]_vars
SpecProto == Init /\ [][NextProto]_vars
SpecPipe == Init /\ [][NextPipe]_vars
NextFlush == NextM(MenuPipe, MaxFdFlush, MaxInFlightFlush)
SpecIso == Init /\ [][NextIso]_vars

(***************************************************************************)
(* Properties.  They are stated over hr, the record of the last iteration  *)
(* of handleConnectionSockets: the connection and the peer's side before   *)
(* it, what the system calls returned, and what the handlers did.  The     *)
(* responses are read as the client reads them, with decodeResponse.        *)
(***************************************************************************)
\* The last step handled the readiness of a registered connection.
Iterated == hr.fd # -1

\* ... and its ::read returned bytes.
DidRead == Iterated /\ hr.read = "data"

\* The bytes handleReadable appended to the outgoing buffer.
Appended == SubSeq(hr.queued, Len(hr.before.outgoing) + 1, Len(hr.queued))

RECURSIVE Answers(_)
\* The responses a client decodes from the bytes buf, in order.
Answers(buf) ==
  LET r == decodeResponse(buf) IN
  IF ~r.ok THEN <<>>
  ELSE <<[status |-> r.status, data |-> r.data]>> \o Answers(bufConsume(buf, r.size))

\* The bytes of the response frames ans.
Encoded(ans) == Concat([k \in 1..Len(ans) |-> RefFrame(ans[k].status, ans[k].data)])

Got == Answers(Appended)

\* The k-th response appended in the iteration has this status and payload.
Answered(k, status, data) == k <= Len(Got) /\ Got[k] = [status |-> status, data |-> data]

\* The commands of the messages the peer had sent and the server had not
\* dispatched when the iteration began, in the order sent.
Sent == Cmds(hr.peer.pend)

\* The history of the keys when the k-th of them is dispatched.
Hist(k) == RefRun(hr.kv, SubSeq(Sent, 1, k - 1))

\* The requests dispatched in the iteration, as positions in Sent.
Dispatches == 1..Min(Len(hr.events), Len(Sent))

\* C1: after a set of k to v has been dispatched on any connection, the next
\* get of k dispatched, with no set or del of k in between, is answered with
\* status 0 and payload v; a set answers status 0 with an empty payload and
\* leaves k holding its value, replacing any earlier one.
C1_SetThenGet ==
  Iterated =>
    \A k \in Dispatches :
      /\ IsGet(Sent[k]) /\ ~Absent(Hist(k), Sent[k][2])
           => Answered(k, RES_OK, Hist(k)[Sent[k][2]])
      /\ IsSet(Sent[k])
           => /\ Answered(k, RES_OK, <<>>)
              /\ Sent[k][2] \in DOMAIN hr.events[k].after
              /\ hr.events[k].after[Sent[k][2]] = Sent[k][3]

\* A get of key a on the second connection is answered with the value y, the
\* value of the set that replaced x.
C1_Witness ==
  /\ Iterated /\ hr.fd = listen_fd + 2
  /\ Len(hr.events) = 1 /\ Sent[1] = <<S_get, K_a>>
  /\ hr.kv[K_a] = V_y
  /\ Got = <<[status |-> RES_OK, data |-> V_y]>>

\* C2: a get of a key that was never set, or whose last set or del dispatched
\* was a del, is answered with status 1 and an empty payload, and the Store
\* after the get is the Store before it.
C2_GetAbsent ==
  Iterated =>
    \A k \in Dispatches :
      IsGet(Sent[k]) /\ Absent(Hist(k), Sent[k][2])
        => /\ Answered(k, RES_NX, <<>>)
           /\ hr.events[k].after = hr.events[k].before

\* A get of key a, deleted after it was set, with key b in the Store.
C2_Witness ==
  /\ Iterated /\ Len(hr.events) = 1 /\ Sent[1] = <<S_get, K_a>>
  /\ hr.kv[K_a] = Gone
  /\ Got = <<[status |-> RES_NX, data |-> <<>>]>>
  /\ K_b \in DOMAIN store /\ store = hr.store

\* C3: a del is answered with status 0 and an empty payload whether or not
\* the key was present; after it the key is absent from the Store and every
\* other key is present as before with the value it had.
C3_Del ==
  Iterated =>
    \A k \in Dispatches :
      IsDel(Sent[k])
        => /\ Answered(k, RES_OK, <<>>)
           /\ DOMAIN hr.events[k].after = DOMAIN hr.events[k].before \ {Sent[k][2]}
           /\ \A j \in DOMAIN hr.events[k].after :
                hr.events[k].after[j] = hr.events[k].before[j]

\* A del of key a, present, while key b holds y: b still holds y afterwards.
C3_Witness ==
  /\ Iterated /\ Len(hr.events) = 1 /\ Sent[1] = <<S_del, K_a>>
  /\ K_a \in DOMAIN hr.store /\ K_b \in DOMAIN hr.store
  /\ Got = <<[status |-> RES_OK, data |-> <<>>]>>
  /\ DOMAIN store = {K_b} /\ store[K_b] = V_y

RECURSIVE CompleteMsgs(_, _)
\* How many of the messages tx, from the first on, lie entirely within n bytes.
CompleteMsgs(tx, n) ==
  IF tx = <<>> THEN 0
  ELSE IF Len(Item(Head(tx)).bytes) <= n
    THEN 1 + CompleteMsgs(Tail(tx), n - Len(Item(Head(tx)).bytes))
    ELSE 0

\* The messages of the peer that are whole in the incoming buffer once the
\* bytes of the ::read are appended to it.
NComplete == CompleteMsgs(hr.peer.pend, Len(hr.before.incoming) + Len(hr.data))

Kind(k) == Item(hr.peer.pend[k]).kind

\* The first whole message that is not a request frame with a parsable body
\* (0: there is none), and the requests in front of it.
StopAt ==
  IF \A k \in 1..NComplete : Kind(k) = "cmd" THEN 0
  ELSE CHOOSE k \in 1..NComplete :
         Kind(k) # "cmd" /\ \A j \in 1..(k - 1) : Kind(j) = "cmd"

NDue == IF StopAt = 0 THEN NComplete ELSE StopAt - 1

IsBad(cmd) == ~IsGet(cmd) /\ ~IsSet(cmd) /\ ~IsDel(cmd)

\* No ::write of the iteration failed with an error other than EAGAIN.
NoWriteError == \A i \in 1..Len(hr.wcalls) : hr.wcalls[i].kind # "err"

\* The response the specification gives to the k-th command of Sent.
RefAnswer(k) ==
  [status |-> RefExec(Hist(k), Sent[k]).status, data |-> RefExec(Hist(k), Sent[k]).data]

\* C4: a well-formed frame whose command is none of get k, set k v, del k is
\* answered with status 0xFFFFFFFF and an empty payload and leaves the Store
\* unchanged; every well-formed frame behind it is dispatched and answered
\* as the specification says, and where nothing but such frames was read and
\* no write failed, wants-close is not set.
C4_BadCommand ==
  DidRead =>
    \A k \in 1..NDue :
      IsBad(Sent[k])
        => /\ k <= Len(hr.events)
           /\ Answered(k, RES_ERR, <<>>)
           /\ hr.events[k].after = hr.events[k].before
           /\ \A j \in (k + 1)..NDue : j <= Len(hr.events) /\ Got[j] = RefAnswer(j)
           /\ StopAt = 0 /\ NoWriteError => ~hr.mid.want_close /\ ~hr.after.want_close

\* One read delivers a frame of zero strings and a get behind it: the first
\* is answered with the error status, the get is answered, and the
\* connection stays registered.
C4_Witness ==
  /\ DidRead /\ NComplete = 2 /\ Len(hr.events) = 2
  /\ Sent[1] = <<>> /\ Kind(1) = "cmd" /\ IsGet(Sent[2])
  /\ Len(Got) = 2 /\ Got[1] = [status |-> RES_ERR, data |-> <<>>]
  /\ Got[2].status = RES_OK
  /\ ~hr.after.want_close /\ hr.fd \in Live

\* The responses the specification gives to the first n commands of Sent.
DueResponses(n) == RefResponses(hr.kv, SubSeq(Sent, 1, n))

\* C5: requests are dispatched against the Store in the order their frames
\* arrived, each on the Store the one before it left; their response frames
\* are appended in that order behind what was still to be written; the bytes
\* written are a prefix of the responses not yet written, in request order,
\* and what stays in the outgoing buffer is the rest of them.
C5_Order ==
  Iterated =>
    /\ Len(hr.events) <= Len(hr.peer.pend)
    /\ \A k \in 1..Len(hr.events) :
         /\ hr.events[k].frame = Item(hr.peer.pend[k]).bytes
         /\ hr.events[k].before = (IF k = 1 THEN hr.store ELSE hr.events[k - 1].after)
    /\ hr.before.outgoing = Concat(hr.peer.owed)
    /\ hr.read = "data"
         => hr.queued = hr.before.outgoing \o Concat(DueResponses(Len(hr.events)))
    /\ IsPrefix(hr.written, Concat(hr.peer.owed \o DueResponses(Len(hr.events))))
    /\ hr.written \o hr.after.outgoing
         = Concat(hr.peer.owed \o DueResponses(Len(hr.events)))

\* Three requests are dispatched in one iteration and the flush writes the
\* first three bytes of their responses.
C5_Witness ==
  /\ Iterated /\ Len(hr.events) = 3 /\ Len(hr.written) = 3
  /\ hr.after.outgoing # <<>> /\ hr.fd \in Live

\* C6: when a read leaves n >= 1 complete well-formed request frames at the
\* head of the incoming buffer, that invocation of handleReadable dispatches
\* all n, appends exactly n response frames, in frame order, and leaves the
\* bytes behind the n frames in the incoming buffer.
C6_Batch ==
  DidRead /\ StopAt = 0 /\ NComplete >= 1 =>
    /\ Len(hr.events) = NComplete
    /\ Len(Got) = NComplete /\ Encoded(Got) = Appended
    /\ \A k \in 1..NComplete : Got[k] = RefAnswer(k)
    /\ hr.mid.incoming
         = bufConsume(hr.before.incoming \o hr.data,
                      Len(TxBytes(SubSeq(hr.peer.pend, 1, NComplete))))

\* One read into an empty buffer delivers two whole frames and the first
\* bytes of a third.
C6_Witness ==
  /\ DidRead /\ hr.before.incoming = <<>>
  /\ NComplete = 2 /\ Len(hr.events) = 2 /\ Len(Got) = 2
  /\ hr.mid.incoming # <<>> /\ Len(hr.peer.pend) = 3

\* The read of the iteration exposed a frame whose declared length exceeds
\* k_max_msg, behind NDue well-formed requests.
MetOversize == DidRead /\ StopAt # 0 /\ Kind(StopAt) = "oversize"

\* C7, as the specification states it: once the decoder meets a frame whose
\* declared length exceeds k_max_msg, no response bytes are written to the
\* connection from the handling of that read until it is torn down.
C7_NothingWritten ==
  MetOversize => hr.written = <<>> /\ fd2conn[hr.fd] = NULL

\* C7, amended: a frame whose declared length exceeds k_max_msg sets
\* wants-close and the connection is torn down in that iteration; neither
\* that frame nor anything behind it is dispatched or answered, and the only
\* bytes written are of the responses to the requests in front of it; a
\* declared length of exactly k_max_msg closes nothing.
C7_Oversize ==
  DidRead /\ StopAt # 0 =>
    /\ Kind(StopAt) = "oversize"
         => /\ Len(hr.events) = StopAt - 1
            /\ Len(Got) = StopAt - 1 /\ Encoded(Got) = Appended
            /\ \A k \in 1..(StopAt - 1) : Got[k] = RefAnswer(k)
            /\ IsPrefix(hr.written, hr.before.outgoing \o Concat(DueResponses(StopAt - 1)))
            /\ hr.mid.want_close /\ hr.after.want_close
            /\ fd2conn[hr.fd] = NULL /\ hr.fd \notin DOMAIN peers
    /\ Kind(StopAt) = "open"
         => /\ Len(hr.events) = StopAt - 1
            /\ NoWriteError => ~hr.after.want_close

\* One read delivers a get and, behind it, a length prefix of k_max_msg + 1:
\* the response to the get is written and the connection is torn down.
C7_Witness ==
  /\ MetOversize /\ StopAt = 2 /\ IsGet(Sent[1])
  /\ Len(hr.events) = 1 /\ hr.written = hr.queued /\ hr.written # <<>>
  /\ hr.ready = {"POLLIN"} /\ fd2conn[hr.fd] = NULL

\* The Store holds what the history m says.
StoreIs(st, m) ==
  /\ DOMAIN st \subseteq Keys
  /\ \A k \in Keys : IF Absent(m, k) THEN k \notin DOMAIN st
                     ELSE k \in DOMAIN st /\ st[k] = m[k]

\* C8: a fully buffered frame whose body is malformed sets wants-close, gets
\* no response, leaves the Store as the requests in front of it left it, and
\* no frame behind it is dispatched or answered.
C8_Malformed ==
  DidRead /\ StopAt # 0 /\ Kind(StopAt) = "malformed" =>
    /\ hr.mid.want_close /\ hr.after.want_close
    /\ Len(hr.events) = StopAt - 1
    /\ Len(Got) = StopAt - 1 /\ Encoded(Got) = Appended
    /\ store = (IF StopAt = 1 THEN hr.store ELSE hr.events[StopAt - 1].after)
    /\ StoreIs(store, RefRun(hr.kv, SubSeq(Sent, 1, StopAt - 1)))

\* One read delivers a frame with a byte left behind its last string and a
\* get behind that frame, while the Store holds a key: nothing is
\* dispatched, nothing is appended, the Store is as it was.
C8_Witness ==
  /\ DidRead /\ NComplete = 2 /\ StopAt = 1
  /\ hr.peer.pend = <<"m_trailing", "get_a">>
  /\ hr.events = <<>> /\ hr.queued = <<>> /\ hr.written = <<>>
  /\ hr.mid.want_close /\ hr.store # <<>> /\ store = hr.store

\* C9: wants-read and wants-write are never both true: for a registered
\* connection, after handleReadable and after handleWritable.
Exclusive(c) == ~(c.want_read /\ c.want_write)

C9_Flags ==
  /\ \A fd \in Live : Exclusive(fd2conn[fd])
  /\ Iterated => Exclusive(hr.before) /\ Exclusive(hr.mid) /\ Exclusive(hr.after)

\* handleReadable turned a reading connection to writing, and a later
\* handleWritable, having written the rest, turned it back to reading.
C9_Witness ==
  /\ Iterated /\ hr.ready = {"POLLOUT"}
  /\ hr.before.want_write /\ ~hr.before.want_read
  /\ hr.written # <<>>
  /\ hr.after.want_read /\ ~hr.after.want_write
  /\ hr.fd \in Live

\* The entries of poll_args the loop of handleConnectionSockets has handled.
Handled(k) == pc = "prepare" \/ (pc = "conns" /\ k < idx)

\* C10: a registered connection is torn down in an iteration if and only if
\* an error or hangup bit was reported for it or it has wants-close set after
\* its handlers ran; no registered connection has wants-close set when the
\* poll set is built; a connection that is polled stays registered until its
\* entry is handled, and stays registered then if nothing was reported.
C10_Teardown ==
  /\ Iterated =>
       /\ (fd2conn[hr.fd] = NULL) <=> (hr.ready \cap ErrBits # {} \/ hr.after.want_close)
       /\ (hr.fd \notin DOMAIN peers) <=> (fd2conn[hr.fd] = NULL)
       /\ fd2conn[hr.fd] # NULL => fd2conn[hr.fd] = hr.after
  /\ pc \in {"prepare", "wait"} => \A fd \in Live : ~fd2conn[fd].want_close
  /\ pc \in {"wait", "listen", "conns", "prepare"} =>
       \A k \in 2..Len(poll_args) :
         ~Handled(k) \/ poll_args[k].revents = {} => poll_args[k].fd \in Live

\* At the end of a cycle with two registered connections: nothing was
\* reported for the first, which is registered as it was; the second read
\* end of file, with no error bit reported, and is torn down.
C10_Witness ==
  /\ pc = "prepare" /\ Len(poll_args) = 3
  /\ poll_args[2].revents = {} /\ poll_args[2].fd \in Live
  /\ Iterated /\ hr.fd = poll_args[3].fd /\ hr.ready = {"POLLIN"}
  /\ hr.read = "eof" /\ hr.after.want_close
  /\ fd2conn[hr.fd] = NULL /\ hr.fd \notin DOMAIN peers

\* The step is an iteration of handleConnectionSockets that tears down the
\* connection of descriptor fd.
TearsDown(fd) ==
  /\ pc = "conns" /\ idx <= Len(poll_args) /\ poll_args[idx].fd = fd
  /\ fd \in Live /\ fd2conn'[fd] = NULL

\* C11: the step that handles a failure of connection A (a read or write
\* error, end of file, a protocol violation, an error or hangup bit) and
\* tears A down leaves every other registered connection B as it was:
\* B's registry entry with its buffers and its three flags, and B's
\* descriptor open; and the event loop goes on.
C11_Isolation ==
  [][\A fdA \in Live :
       TearsDown(fdA) =>
         /\ \A fdB \in Live \ {fdA} :
              /\ fdB \in DOMAIN fd2conn' /\ fd2conn'[fdB] = fd2conn[fdB]
              /\ fdB \in DOMAIN peers' /\ peers'[fdB] = peers[fdB]
         /\ pc' \in {"conns", "prepare"}]_vars

\* Connection A read a frame with a malformed body and was torn down, while
\* connection B, registered, holds the first bytes of a frame in its
\* incoming buffer.
C11_Witness ==
  /\ DidRead /\ StopAt = 1 /\ Kind(1) = "malformed"
  /\ hr.mid.want_close /\ fd2conn[hr.fd] = NULL
  /\ \E fdB \in Live : fdB # hr.fd /\ Len(fd2conn[fdB].incoming) = 3

(***************************************************************************)
(* One exchange of the synchronous client with the server's decoder:       *)
(* send_command builds and writes the request frame, tryOneRequest serves  *)
(* it, send_command reads the response.  The commands are all the lists of *)
(* at most MaxArgs strings over CodecStrings, and three at the size limit  *)
(* of build_payload.                                                       *)
(***************************************************************************)
MaxArgs == 3

\* A string of n bytes.
Big(n) == [i \in 1..n |-> 66]

\* The longest value v for which build_payload accepts ["set", "a", v]:
\* 4 + (4 + 3) + (4 + 1) + (4 + Len(v)) <= k_max_msg.
BigLen == k_max_msg - 20

CodecStrings == {<<>>, K_a, V_x, S_get, S_set, S_del}

CodecCmds ==
  UNION {[1..n -> CodecStrings] : n \in 0..MaxArgs}
    \cup {<<S_set, K_a, Big(BigLen)>>, <<S_set, K_a, Big(BigLen + 1)>>,
          <<Big(k_max_msg + 1)>>}

\* The Store the exchange begins with.
CodecStores == {<<>>, [k \in {K_a} |-> V_x], [k \in {K_a} |-> Big(BigLen)]}

\* Bytes that follow the frame in the server's incoming buffer.
CodecRests == {<<>>, <<7>>}

NoServe == [more |-> FALSE, conn |-> Connection(listen_fd + 1), store |-> <<>>,
            events |-> <<>>]

InitCodec ==
  /\ store \in CodecStores
  /\ fd2conn = <<>>
  /\ poll_args = <<>>
  /\ pc = "client"
  /\ idx = 1
  /\ peers = <<>>
  /\ kv = [k \in Keys |-> None]
  /\ hr = NoHr
  /\ \E cmd \in CodecCmds, rest \in CodecRests :
       cl = [at |-> "build", cmd |-> cmd, rest |-> rest, wbuf |-> <<>>,
             srv |-> NoServe, status |-> U32(0), data |-> <<>>]

\* send_command, lines 52-80: b is the result of build_payload.
clientBuilt(b) ==
  IF ~b.ok \/ Len(b.payload) > k_max_msg
    THEN [cl EXCEPT !.at = "failed"]
    ELSE [cl EXCEPT !.at = "sent",
                    !.wbuf = append_u32(<<>>, Len(b.payload)) \o b.payload]

ClientBuild ==
  /\ cl.at = "build"
  /\ cl' = clientBuilt(build_payload(cl.cmd))
  /\ UNCHANGED <<store, fd2conn, poll_args, pc, idx, peers, kv, hr>>

\* t is the result of tryOneRequest on the bytes the client wrote.
serverServed(t) ==
  /\ store' = t.store
  /\ cl' = [cl EXCEPT !.at = "served", !.srv = t]

ServerServe ==
  /\ cl.at = "sent"
  /\ serverServed(tryOneRequest(
       [Connection(listen_fd + 1) EXCEPT !.incoming = cl.wbuf \o cl.rest], store))
  /\ UNCHANGED <<fd2conn, poll_args, pc, idx, peers, kv, hr>>

\* send_command, lines 82-110: r is the response decoded from the bytes the
\* server appended to its outgoing buffer.
clientReceived(r) ==
  IF ~r.ok THEN [cl EXCEPT !.at = "refused"]
  ELSE [cl EXCEPT !.at = "done", !.status = r.status, !.data = r.data]

ClientReceive ==
  /\ cl.at = "served"
  /\ cl' = clientReceived(decodeResponse(cl.srv.conn.outgoing))
  /\ UNCHANGED <<store, fd2conn, poll_args, pc, idx, peers, kv, hr>>

NextCodec == ClientBuild \/ ServerServe \/ ClientReceive

SpecCodec == InitCodec /\ [][NextCodec]_vars

\* C12: for every command build_payload accepts, the server decodes from the
\* frame the client wrote exactly that list of strings and consumes exactly
\* the 4 + length bytes of the frame, closing nothing; the client accepts the
\* response frame, and the status and payload it extracts are the ones the
\* server encoded.
C12_RoundTrip ==
  /\ cl.at \in {"served", "done", "refused"} =>
       /\ cl.srv.more /\ ~cl.srv.conn.want_close
       /\ Len(cl.srv.events) = 1
       /\ cl.srv.events[1].cmd = cl.cmd
       /\ cl.srv.events[1].frame = cl.wbuf
       /\ cl.srv.conn.incoming = cl.rest
  /\ cl.at # "refused"
  /\ cl.at = "done" =>
       /\ cl.status = cl.srv.events[1].status
       /\ cl.data = cl.srv.events[1].data
       /\ cl.srv.conn.outgoing = RefFrame(cl.status, cl.data)

\* The client sent ["set", "a", v] with v of the greatest length
\* build_payload accepts, with a byte behind the frame, and read status 0.
C12_Witness ==
  /\ cl.at = "done" /\ cl.cmd = <<S_set, K_a, Big(BigLen)>>
  /\ cl.rest = <<7>> /\ Len(cl.wbuf) = 4 + k_max_msg
  /\ cl.status = RES_OK /\ store[K_a] = Big(BigLen)

(***************************************************************************)
(* The synchronous client reading one response with read_full: first the   *)
(* 4 bytes of the length, then the body.  cl.wire holds the bytes that     *)
(* arrive before the stream ends (the peer sent them and closed); a read   *)
(* returns a positive count while bytes are left, 0 once the stream has    *)
(* ended, or a negative result for an error.                               *)
(***************************************************************************)

\* What a peer can have written before it closed: each prefix of a response
\* of the server, and of two frames whose length send_command refuses.
WireResponses ==
  {appendResponse(Connection(listen_fd + 1), RES_OK, <<>>).outgoing,
   appendResponse(Connection(listen_fd + 1), RES_OK, V_x).outgoing,
   appendResponse(Connection(listen_fd + 1), RES_NX, <<>>).outgoing,
   U32(3) \o <<1, 2, 3>>,
   U32(k_max_msg + 1)}

Wires == UNION {{SubSeq(r, 1, k) : k \in 0..Len(r)} : r \in WireResponses}

InitReadFull ==
  /\ store = <<>>
  /\ fd2conn = <<>>
  /\ poll_args = <<>>
  /\ pc = "client"
  /\ idx = 1
  /\ peers = <<>>
  /\ kv = [k \in Keys |-> None]
  /\ hr = NoHr
  /\ \E w \in Wires :
       cl = [at |-> "test", phase |-> "hdr", n |-> 4, buf |-> <<>>,
             hdr |-> <<>>, wire |-> w, rv |-> 1, status |-> U32(0),
             data |-> <<>>]

\* send_command, lines 91-110, after read_full returned: the length check
\* after the header, the parse of status and data after the body.
readFullReturned ==
  IF cl.phase = "hdr"
    THEN IF U32_gt(cl.buf, k_max_msg) \/ ~U32_gt(cl.buf, 3)
           THEN [cl EXCEPT !.at = "invalid", !.hdr = cl.buf]
           ELSE [cl EXCEPT !.at = "test", !.phase = "body", !.hdr = cl.buf,
                           !.n = U32_val(cl.buf), !.buf = <<>>]
    ELSE [cl EXCEPT !.at = "returned", !.status = SubSeq(cl.buf, 1, 4),
                    !.data = SubSeq(cl.buf, 5, Len(cl.buf))]

\* read_full, line 27 and line 44: the loop test, and the return.
ReadFullTest ==
  /\ cl.at = "test"
  /\ cl' = IF cl.n > 0 THEN [cl EXCEPT !.at = "read"] ELSE readFullReturned
  /\ UNCHANGED <<store, fd2conn, poll_args, pc, idx, peers, kv, hr>>

\* The results read(fd, buf, n) can give.
readResults == (IF cl.wire = <<>> THEN {0} ELSE 1..Min(cl.n, Len(cl.wire))) \cup {-1}

\* read_full, lines 33-42, for the result rv of read.
readFullRead(rv) ==
  IF rv < 0 THEN [cl EXCEPT !.at = "thrown", !.rv = rv]
  ELSE [cl EXCEPT !.at = "test", !.rv = rv, !.n = cl.n - rv,
                  !.buf = cl.buf \o SubSeq(cl.wire, 1, rv),
                  !.wire = SubSeq(cl.wire, rv + 1, Len(cl.wire))]

ReadFullRead ==
  /\ cl.at = "read"
  /\ \E rv \in readResults : cl' = readFullRead(rv)
  /\ UNCHANGED <<store, fd2conn, poll_args, pc, idx, peers, kv, hr>>

\* signal_handler: SIGTERM ends the process.
ReadFullSignal ==
  /\ cl.at \in {"test", "read"}
  /\ cl' = [cl EXCEPT !.at = "exited"]
  /\ UNCHANGED <<store, fd2conn, poll_args, pc, idx, peers, kv, hr>>

NextReadFull == ReadFullTest \/ ReadFullRead \/ ReadFullSignal

\* A running client keeps executing its loop; no signal has to arrive.
SpecReadFull ==
  /\ InitReadFull /\ [][NextReadFull]_vars
  /\ WF_vars(ReadFullTest) /\ WF_vars(ReadFullRead)

ReadFullEnded == cl.at \in {"returned", "invalid", "thrown", "exited"}

\* C13: read_full terminates for every sequence of results of read: the
\* client reading a response eventually has it, or has given up (read_full
\* threw, the length was refused, or the process was told to stop).
C13_Terminates == <>ReadFullEnded

\* The stream ended while read_full still wanted bytes: read returned 0 and
\* the loop is about to call read again with the same n.
C13_Witness ==
  /\ cl.at = "read" /\ cl.rv = 0 /\ cl.n > 0 /\ cl.wire = <<>>
  /\ cl.phase = "body"

(***************************************************************************)
(* The outcomes of the handlers, on the record of the last iteration.      *)
(***************************************************************************)

\* handleReadable ran in the last iteration and its ::read gave no bytes.
ReadFailed == Iterated /\ hr.read \in {"eof", "eagain", "err"}

\* C14: a read of zero bytes sets wants-close, with an empty incoming buffer
\* and with a partial frame in it; a read that would block changes no flag
\* and no buffer; any other read failure sets wants-close; in all three
\* cases nothing else of the connection changes, no frame is decoded, no
\* response is appended, ::write is not called and the Store is as before.
C14_ReadOutcomes ==
  ReadFailed =>
    /\ hr.read = "eagain" => hr.mid = hr.before
    /\ hr.read \in {"eof", "err"} =>
         hr.mid = [hr.before EXCEPT !.want_close = TRUE]
    /\ hr.events = <<>>
    /\ hr.mid.outgoing = hr.before.outgoing
    /\ hr.mid.incoming = hr.before.incoming
    /\ hr.wcalls = <<>> /\ hr.written = <<>> /\ hr.after = hr.mid
    /\ store = hr.store
    /\ kv = hr.kv

\* The peer closed after 3 bytes of a frame had been buffered: the read of
\* zero bytes set wants-close and the connection was torn down.
C14_Witness ==
  /\ ReadFailed /\ hr.read = "eof"
  /\ Len(hr.before.incoming) = 3 /\ ~hr.before.want_close
  /\ hr.mid.want_close /\ hr.torn /\ fd2conn[hr.fd] = NULL

\* The Connection handleReadable passed to its flush in the last iteration:
\* the result of the dispatch loop on the bytes read, turned to writing.
FlushPre ==
  [dispatchLoop([hr.before EXCEPT
                   !.incoming = bufAppend(hr.before.incoming, hr.data)],
                hr.store, <<>>).conn
     EXCEPT !.want_read = FALSE, !.want_write = TRUE]

\* What the claim says of one call of handleWritable on pre, whose ::write
\* gave w, with post the Connection after it and wr the bytes written.
WritableOutcome(pre, w, post, wr) ==
  /\ pre.outgoing # <<>> /\ pre.want_write /\ ~pre.want_read
  /\ w.kind = "eagain" => post = pre /\ wr = <<>>
  /\ w.kind = "err" => post = [pre EXCEPT !.want_close = TRUE] /\ wr = <<>>
  /\ w.kind = "ok" =>
       /\ w.space <= Len(pre.outgoing)
       /\ wr = SubSeq(pre.outgoing, 1, w.space)
       /\ wr \o post.outgoing = pre.outgoing
       /\ post.incoming = pre.incoming /\ post.want_close = pre.want_close
       /\ post.fd = pre.fd
       /\ IF w.space < Len(pre.outgoing)
            THEN post.want_write /\ ~post.want_read /\ post.outgoing # <<>>
            ELSE ~post.want_write /\ post.want_read /\ post.outgoing = <<>>

\* C15: handleWritable on a non-empty outgoing buffer of length L, in a
\* connection that is writing: would-block leaves the connection as it was;
\* a write error sets wants-close and nothing else; a write of w < L bytes
\* (w = 0 included) removes exactly the first w bytes, keeps the other
\* L - w in order and leaves the flags; a write of L bytes empties the
\* buffer and sets wants-read, clears wants-write.  This holds of the call
\* made for a writable descriptor and of the flush of handleReadable.
C15_WriteOutcomes ==
  Iterated =>
    /\ Len(hr.wcalls) <= 1
    /\ hr.wcalls # <<>> =>
         IF "POLLOUT" \in hr.ready
           THEN WritableOutcome(hr.mid, hr.wcalls[1], hr.after, hr.written)
           ELSE /\ DidRead /\ hr.after = hr.mid
                /\ WritableOutcome(FlushPre, hr.wcalls[1], hr.mid, hr.written)

\* A writable descriptor took 3 of the 5 bytes left of a response: the other
\* 2 stay in the buffer and the connection stays in writing.
C15_Witness ==
  /\ Iterated /\ "POLLOUT" \in hr.ready
  /\ hr.wcalls = <<[kind |-> "ok", space |-> 3]>>
  /\ Len(hr.mid.outgoing) = 5 /\ Len(hr.after.outgoing) = 2
  /\ hr.after.want_write /\ ~hr.after.want_read /\ ~hr.torn
  /\ fd2conn[hr.fd] = hr.after

(***************************************************************************)
(* Fragmentation.                                                          *)
(***************************************************************************)

\* The incoming buffer the decoder of the last iteration ran on.
Buffered == hr.before.incoming \o hr.data

DeclaredLen(b) == U32_val(SubSeq(b, 1, 4))

\* Fewer than 4 bytes, or fewer than 4 + declared length bytes.
Short(b) == Len(b) < 4 \/ Len(b) < 4 + DeclaredLen(b)

\* The same, for a declared length the decoder accepts.
Waiting(b) ==
  Len(b) < 4 \/ (DeclaredLen(b) <= k_max_msg /\ Len(b) < 4 + DeclaredLen(b))

\* The read was buffered and nothing else happened.
OnlyBuffered ==
  /\ hr.mid = [hr.before EXCEPT !.incoming = Buffered]
  /\ hr.after = hr.mid
  /\ hr.events = <<>> /\ hr.wcalls = <<>> /\ hr.written = <<>>
  /\ store = hr.store /\ kv = hr.kv

\* handleReadable on the same connection with nothing buffered, given the
\* bytes of Buffered in one read, and the same result of ::write.
OneRead ==
  handleReadable([hr.before EXCEPT !.incoming = <<>>], hr.store,
                 [kind |-> "data", data |-> Buffered],
                 IF hr.wcalls = <<>> THEN NoWrite ELSE hr.wcalls[1])

\* C16, as the claim states it: while fewer than 4 bytes, or fewer than
\* 4 + declared length bytes, of a frame are buffered, the decoder changes
\* no flag, appends no response, consumes nothing and leaves the Store.
C16_ShortNoChange == DidRead /\ Short(Buffered) => OnlyBuffered

\* C16, amended: what is buffered of a connection is, in order, the bytes
\* its peer sent that were neither dispatched nor are still to be read;
\* while fewer than 4 bytes, or a declared length within the limit and fewer
\* than 4 + declared length bytes, are buffered, the decoder changes no flag,
\* appends no response, consumes nothing and leaves the Store; and a read
\* that adds to buffered fragments ends with the same requests dispatched,
\* the same response bytes queued and written, the same Store and the same
\* remainder in the incoming buffer as one read of all those bytes.
C16_Fragments ==
  /\ \A fd \in Live : fd2conn[fd].incoming \o peers[fd].rcvq = TxBytes(peers[fd].pend)
  /\ Iterated =>
       /\ hr.before.incoming \o hr.peer.rcvq = TxBytes(hr.peer.pend)
       /\ IsPrefix(hr.data, hr.peer.rcvq)
  /\ DidRead /\ Waiting(Buffered) => OnlyBuffered
  /\ DidRead =>
       /\ hr.mid = OneRead.conn
       /\ store = OneRead.store
       /\ hr.events = OneRead.events
       /\ hr.queued = OneRead.queued
       /\ hr.written = OneRead.written

\* A set request that arrived in pieces, 5 bytes of it buffered before the
\* read that completed it, was dispatched, answered in full and consumed.
C16_Witness ==
  /\ DidRead /\ Len(hr.before.incoming) = 5 /\ ~hr.torn
  /\ Len(hr.events) = 1 /\ hr.events[1].cmd = <<S_set, K_a, V_x>>
  /\ hr.events[1].frame = Buffered
  /\ K_a \notin DOMAIN hr.store /\ store[K_a] = V_x
  /\ hr.written = RefFrame(RES_OK, <<>>)
  /\ hr.mid.incoming = <<>> /\ hr.mid.outgoing = <<>>

(***************************************************************************)
(* The oversized frame and the incoming buffer.                            *)
(***************************************************************************)

\* What was buffered from the first message the decoder did not dispatch.
AtStop ==
  SubSeq(Buffered, Len(TxBytes(SubSeq(hr.peer.pend, 1, StopAt - 1))) + 1,
         Len(Buffered))

\* C17, as the claim states it: at a frame whose declared length is above
\* k_max_msg the decoder drops the declared length worth of bytes from the
\* incoming buffer.
C17_Drops ==
  MetOversize => hr.mid.incoming = bufConsume(AtStop, DeclaredLen(AtStop))

\* C17, amended: at a frame whose declared length is above k_max_msg the
\* decoder sets wants-close and consumes nothing: the oversized prefix and
\* every byte behind it stay in the incoming buffer; the frames in front of
\* it were dispatched, no frame behind it is, and the connection is torn
\* down in that iteration.
C17_Keeps ==
  MetOversize =>
    /\ Len(AtStop) >= 4 /\ DeclaredLen(AtStop) > k_max_msg
    /\ hr.mid.want_close /\ hr.after.want_close
    /\ hr.mid.incoming = AtStop /\ hr.after.incoming = AtStop
    /\ Len(hr.events) = StopAt - 1
    /\ \A k \in 1..Len(hr.events) : hr.events[k].frame = Item(hr.peer.pend[k]).bytes
    /\ store = (IF hr.events = <<>> THEN hr.store
                ELSE hr.events[Len(hr.events)].after)
    /\ hr.torn /\ fd2conn[hr.fd] = NULL

\* An oversized prefix arrived with a whole get request behind it: nothing
\* was dispatched and all the bytes are still buffered at the teardown.
C17_Witness ==
  /\ MetOversize /\ StopAt = 1 /\ NComplete = 2 /\ Kind(2) = "cmd"
  /\ hr.before.incoming = <<>>
  /\ hr.events = <<>> /\ hr.mid.want_close
  /\ hr.mid.incoming = U32(k_max_msg + 1) \o requestFrame(<<S_get, K_a>>)
  /\ fd2conn[hr.fd] = NULL

(***************************************************************************)
(* Flushing.  In SpecFlush the steps of the loop that the server takes by  *)
(* itself are weakly fair: run() calls runOnce for ever, and preparePollArgs,*)
(* handleListeningSocket and each iteration of handleConnectionSockets      *)
(* return.  poll() is not: it returns when the system has something to     *)
(* report.                                                                 *)
(***************************************************************************)
SpecFlush ==
  /\ Init /\ [][NextFlush]_vars
  /\ WF_vars(preparePollArgs)
  /\ WF_vars(handleListeningSocket(MaxFdFlush))
  /\ WF_vars(handleConnectionSockets)

FlushFds == (listen_fd + 1)..MaxFdFlush

\* The connection on fd is in writing with bytes to write.
Writing(fd) ==
  fd \in Live /\ fd2conn[fd].want_write /\ fd2conn[fd].outgoing # <<>>

\* poll() has reported fd writable in the current cycle.
ReportedWritable(fd) ==
  /\ pc \in {"listen", "conns"}
  /\ \E k \in 2..Len(poll_args) :
       poll_args[k].fd = fd /\ "POLLOUT" \in poll_args[k].revents

\* No error or hangup is reported for fd, and the ::write of the last
\* iteration on fd accepted at least one byte.
Quiet(fd) ==
  /\ \A k \in 2..Len(poll_args) :
       poll_args[k].fd = fd => poll_args[k].revents \cap ErrBits = {}
  /\ hr.fd = fd =>
       \A i \in 1..Len(hr.wcalls) :
         hr.wcalls[i].kind = "ok" /\ hr.wcalls[i].space >= 1

\* The connection on fd is back in reading with nothing left to write, and
\* every response to a request dispatched on it has been written in full.
Drained(fd) ==
  /\ fd \in Live /\ fd2conn[fd].outgoing = <<>>
  /\ fd2conn[fd].want_read /\ ~fd2conn[fd].want_write
  /\ peers[fd].owed = <<>>

\* C18: if a connection is in writing with a non-empty outgoing buffer and
\* from then on its descriptor is reported writable again and again, every
\* ::write accepts at least one byte and no error or hangup is reported for
\* it, then eventually its outgoing buffer is empty, it is back in reading
\* and every response appended has been written completely.
C18_Flush ==
  \A fd \in FlushFds :
    [](Writing(fd) /\ []Quiet(fd) /\ []<>ReportedWritable(fd) => <>Drained(fd))

\* A writable descriptor took the last 2 bytes of a response that earlier
\* writes had taken in part: the connection is back in reading.
C18_Witness ==
  /\ Iterated /\ "POLLOUT" \in hr.ready /\ hr.ready \cap ErrBits = {}
  /\ hr.before.want_write /\ Len(hr.before.outgoing) = 2
  /\ hr.wcalls = <<[kind |-> "ok", space |-> 2]>>
  /\ Drained(hr.fd) /\ fd2conn[hr.fd] = hr.after

(***************************************************************************)
(* The registry where the poll set is built: pc = "prepare" is the call    *)
(* of preparePollArgs, pc = "wait" the poll set it has built.              *)
(***************************************************************************)
AtBuild == pc \in {"prepare", "wait"}

\* The entries of the poll set for descriptor fd.
Entries(fd) == {k \in 2..Len(poll_args) : poll_args[k].fd = fd}

\* C19: where the poll set is built, each registered connection has
\* wants-write exactly when its outgoing buffer is non-empty and wants-read
\* exactly when it is empty; the poll set has one entry for it, asking for
\* POLLOUT in the first case and for POLLIN in the second, never for both.
C19_FlagsMatchBuffer ==
  AtBuild =>
    \A fd \in Live :
      /\ fd2conn[fd].want_write <=> fd2conn[fd].outgoing # <<>>
      /\ fd2conn[fd].want_read <=> fd2conn[fd].outgoing = <<>>
      /\ pc = "wait" =>
           /\ Cardinality(Entries(fd)) = 1
           /\ \A k \in Entries(fd) :
                poll_args[k].events =
                  (IF fd2conn[fd].outgoing = <<>> THEN {"POLLERR", "POLLIN"}
                   ELSE {"POLLERR", "POLLOUT"})

\* The poll set was built with one connection that has 5 bytes of a response
\* left to write, polled for POLLOUT, and one with nothing to write, polled
\* for POLLIN.
C19_Witness ==
  /\ pc = "wait"
  /\ \E fdA \in Live, fdB \in Live :
       /\ Len(fd2conn[fdA].outgoing) = 5 /\ fd2conn[fdA].want_write
       /\ \E k \in Entries(fdA) : "POLLOUT" \in poll_args[k].events
       /\ fd2conn[fdB].outgoing = <<>> /\ fd2conn[fdB].want_read
       /\ \E k \in Entries(fdB) : "POLLIN" \in poll_args[k].events

\* C20: where the poll set is built, the incoming buffer of each registered
\* connection holds no complete frame: it is empty, shorter than 4 bytes, or
\* starts with a length prefix L <= k_max_msg and holds fewer than 4 + L
\* bytes; it is the front of what its peer sent and was not dispatched, and
\* no request of the peer is whole in it, so a request that has fully
\* arrived is never left undispatched.
C20_NoCompleteFrame ==
  AtBuild =>
    \A fd \in Live :
      /\ Waiting(fd2conn[fd].incoming)
      /\ peers[fd].pend # <<>> /\ Item(Head(peers[fd].pend)).kind = "cmd" =>
           Len(fd2conn[fd].incoming) < Len(Item(Head(peers[fd].pend)).bytes)
      /\ IsPrefix(fd2conn[fd].incoming, TxBytes(peers[fd].pend))

\* The poll set was built with a connection that holds 6 bytes of a frame
\* declaring exactly k_max_msg bytes.
C20_Witness ==
  /\ pc = "wait"
  /\ \E fd \in Live :
       /\ fd2conn[fd].incoming = U32(k_max_msg) \o <<2, 0>>
       /\ DeclaredLen(fd2conn[fd].incoming) = k_max_msg
       /\ fd2conn[fd].want_read
       /\ \E k \in Entries(fd) : "POLLIN" \in poll_args[k].events

(***************************************************************************)
(* The registry across accept and teardown.                                *)
(***************************************************************************)

\* The slot of descriptor fd in the registry f holds no Connection.
EmptySlot(f, fd) == fd \notin DOMAIN f \/ f[fd] = NULL

\* Every Connection of the registry sits in the slot of its own descriptor,
\* and the descriptors of registered Connections are exactly the open ones:
\* none is dropped from the registry while open, none stays in it closed.
RegistrySound ==
  /\ DOMAIN fd2conn = 0..(Cardinality(DOMAIN fd2conn) - 1)
  /\ \A fd \in Live : fd2conn[fd].fd = fd /\ fd > listen_fd
  /\ DOMAIN peers = Live

\* A registered Connection that is not in the poll set of the cycle: it was
\* accepted in this cycle and no handler has touched it.
Untouched(fd) ==
  /\ fd2conn[fd] = Connection(fd)
  /\ peers[fd] = NewPeer
  /\ hr.fd # fd

\* Between the accept and the end of the cycle, the iterations of
\* handleConnectionSockets are on descriptors of the poll set, and at most
\* one registered Connection is not in the poll set, untouched.
CycleSound ==
  /\ pc \in {"wait", "listen"} => \A fd \in Live : Cardinality(Entries(fd)) = 1
  /\ pc \in {"conns", "prepare"} =>
       /\ Iterated => Entries(hr.fd) # {}
       /\ Cardinality({fd \in Live : Entries(fd) = {}}) <= 1
       /\ \A fd \in Live : Cardinality(Entries(fd)) <= 1
       /\ \A fd \in Live : Entries(fd) = {} => Untouched(fd)

\* handleListeningSocket registers a Connection.
AcceptStep == pc = "listen" /\ fd2conn' # fd2conn

\* The step registers a fresh Connection on cfd in an empty slot, leaves
\* every other slot as it was, and cfd is not in the poll set of the cycle.
AcceptsInto(cfd) ==
  /\ EmptySlot(fd2conn, cfd) /\ cfd \notin DOMAIN peers
  /\ cfd \in DOMAIN fd2conn' /\ fd2conn'[cfd] = Connection(cfd)
  /\ \A fd \in DOMAIN fd2conn \ {cfd} : fd2conn'[fd] = fd2conn[fd]
  /\ \A fd \in DOMAIN fd2conn' \ (DOMAIN fd2conn \cup {cfd}) : fd2conn'[fd] = NULL
  /\ Entries(cfd) = {}
  /\ poll_args' = poll_args

\* An iteration of handleConnectionSockets changes no slot but that of the
\* entry it handles, and leaves the poll set.
IterationStep ==
  pc = "conns" =>
    /\ poll_args' = poll_args
    /\ DOMAIN fd2conn' = DOMAIN fd2conn
    /\ \A fd \in DOMAIN fd2conn :
         fd2conn'[fd] # fd2conn[fd] => fd = poll_args[idx].fd /\ fd2conn[fd] # NULL

\* C21: in any sequence of cycles, with descriptor numbers reused: a newly
\* accepted Connection is registered in an empty slot and no other slot
\* changes; every registered Connection sits under its own descriptor number
\* and the registered descriptors are exactly the open ones; and a
\* Connection accepted in a cycle is in no entry of that cycle's poll set,
\* so it gets no handler call and no teardown before the next cycle.
C21_Registry ==
  /\ [](RegistrySound /\ CycleSound)
  /\ [][(AcceptStep => \E cfd \in (listen_fd + 1)..MaxFd : AcceptsInto(cfd))
          /\ IterationStep]_vars

\* Descriptor 4 was torn down and given out again while descriptor 5 stayed
\* open: the new Connection sits in slot 4, not yet in the poll set, and the
\* one on 5 is being handled in this cycle.
C21_Witness ==
  /\ pc = "conns"
  /\ 5 \in Live /\ Entries(5) # {}
  /\ 4 \in Live /\ Entries(4) = {} /\ Untouched(4)
  /\ fd2conn[5] # Connection(5)

(***************************************************************************)
(* The length of response frames.  A peer (not necessarily the client of   *)
(* this repository) sends up to MaxRequests request frames, one at a time, *)
(* each on a new connection; the server's decoder serves each on the Store *)
(* the ones before left, and the client's reader takes the response.  The  *)
(* frames are at, just above and well above the size limit.                *)
(***************************************************************************)
MaxRequests == 3

\* A request frame as the wire format has it, without the size check of
\* build_payload.
rawFrame(cmd) ==
  U32(Len(payloadStrings(cmd, 1, append_u32(<<>>, Len(cmd)))))
    \o payloadStrings(cmd, 1, append_u32(<<>>, Len(cmd)))

\* A set frame with key k and a value of n bytes has length field 19 +
\* Len(k) + n: 4 for the count, 4 + 3 for "set", 4 + Len(k), 4 + n.
MaxValue(k) == k_max_msg - 19 - Len(k)

LimitCmds ==
  { <<S_set, <<>>, Big(MaxValue(<<>>))>>,      \* length field k_max_msg
    <<S_set, K_a, Big(MaxValue(K_a))>>,        \* length field k_max_msg
    <<S_set, <<>>, Big(MaxValue(<<>>) + 1)>>,  \* k_max_msg + 1
    <<S_set, <<>>, Big(k_max_msg - 3)>>,       \* a get of it would need 4 + k_max_msg - 3
    <<S_set, K_a, V_x>>,
    <<S_get, <<>>>>, <<S_get, K_a>>, <<S_del, K_a>>,
    <<S_get, Big(k_max_msg - 15)>>,            \* length field k_max_msg, key absent
    <<Big(k_max_msg - 8)>> }                   \* length field k_max_msg, bad command

InitLimit ==
  /\ store = <<>>
  /\ fd2conn = <<>>
  /\ poll_args = <<>>
  /\ pc = "client"
  /\ idx = 1
  /\ peers = <<>>
  /\ kv = [k \in Keys |-> None]
  /\ hr = NoHr
  /\ cl = [at |-> "idle", n |-> 0, wbuf |-> <<>>, srv |-> NoServe,
           rok |-> FALSE, status |-> U32(0), data |-> <<>>]

\* The peer writes a request frame.
LimitSend ==
  /\ cl.at = "idle" /\ cl.n < MaxRequests
  /\ \E cmd \in LimitCmds : cl' = [cl EXCEPT !.at = "sent", !.wbuf = rawFrame(cmd)]
  /\ UNCHANGED <<store, fd2conn, poll_args, pc, idx, peers, kv, hr>>

\* tryOneRequest on the frame, on a new Connection.
LimitServe ==
  /\ cl.at = "sent"
  /\ serverServed(tryOneRequest(
       [Connection(listen_fd + 1) EXCEPT !.incoming = cl.wbuf], store))
  /\ UNCHANGED <<fd2conn, poll_args, pc, idx, peers, kv, hr>>

\* send_command, lines 82-110, on the bytes the server appended.
limitReceived(r) ==
  [cl EXCEPT !.at = "idle", !.n = cl.n + 1, !.rok = r.ok,
             !.status = r.status, !.data = r.data]

LimitReceive ==
  /\ cl.at = "served"
  /\ cl' = limitReceived(decodeResponse(cl.srv.conn.outgoing))
  /\ UNCHANGED <<store, fd2conn, poll_args, pc, idx, peers, kv, hr>>

NextLimit == LimitSend \/ LimitServe \/ LimitReceive

SpecLimit == InitLimit /\ [][NextLimit]_vars

\* The request of the exchange was answered.
Responded == cl.at \in {"served", "idle"} /\ cl.srv.events # <<>>

\* The bytes out are one response frame with payload data: a length field
\* of 4 + Len(data) between 4 and k_max_msg, 4 bytes of status, the payload.
ResponseFrameOf(out, data) ==
  /\ Len(out) = 8 + Len(data)
  /\ SubSeq(out, 1, 4) = U32(4 + Len(data))
  /\ 4 <= 4 + Len(data) /\ 4 + Len(data) <= k_max_msg
  /\ SubSeq(out, 9, Len(out)) = data

\* C22: every response frame the server appends has a length field of
\* 4 + payload length, between 4 and k_max_msg, whatever the Store holds and
\* whatever the request: a stored value and its key together are at most
\* k_max_msg - 19 bytes, since they came in a set frame within the limit;
\* and the client accepts every response and reads its status and payload.
C22_ResponseLength ==
  /\ \A k \in DOMAIN store : Len(k) + Len(store[k]) <= k_max_msg - 19
  /\ Responded =>
       /\ Len(cl.srv.events) = 1
       /\ ResponseFrameOf(cl.srv.conn.outgoing, cl.srv.events[1].data)
       /\ SubSeq(cl.srv.conn.outgoing, 5, 8) = cl.srv.events[1].status
  /\ Responded /\ cl.at = "idle" =>
       /\ cl.rok
       /\ cl.status = cl.srv.events[1].status
       /\ cl.data = cl.srv.events[1].data

\* A get of the empty key returned the longest value a set frame can carry:
\* the response has length field k_max_msg - 15 and the client took it.
C22_Witness ==
  /\ Responded /\ cl.at = "idle" /\ cl.rok
  /\ cl.srv.events[1].cmd = <<S_get, <<>>>>
  /\ cl.status = RES_OK /\ cl.data = Big(k_max_msg - 19)
  /\ SubSeq(cl.srv.conn.outgoing, 1, 4) = U32(k_max_msg - 15)

====
